---- MODULE Spec2Model ----
(***************************************************************************)
(* DNA-to-Image-Converter: dna_to_image (one pixel per nucleotide) and     *)
(* dna_to_image_with_text (one block_size x block_size block per           *)
(* nucleotide, with the nucleotide's character drawn on it).               *)
(*                                                                         *)
(* A text is a sequence of one-character strings.  The token "fst" stands  *)
(* for U+FB06 (LATIN SMALL LIGATURE ST), whose str.upper() is the two      *)
(* characters "ST".  The optional arguments image_width and image_height   *)
(* are 0 when absent: the code tests them by truth value                   *)
(* (`if image_width`), so None and 0 take the same branches.               *)
(* A pixel buffer is a function from <<y, x>> to an RGB triple, together   *)
(* with its shape <<rows, columns>>.                                       *)
(***************************************************************************)
EXTENDS Integers, Sequences, FiniteSets, TLC

VARIABLES
    fn,            \* which function runs: "dna_to_image" or "dna_to_image_with_text"
    raw,           \* the contents of input_file
    image_width,   \* argument, 0 = None
    image_height,  \* argument, 0 = None
    block_size,    \* argument of dna_to_image_with_text
    pc,            \* position in the function body
    dna_sequence,  \* local
    total_chars,   \* local
    width,         \* local (width_blocks in dna_to_image_with_text)
    height,        \* local (height_blocks in dna_to_image_with_text)
    img_shape,     \* shape of img_array, <<>> before np.zeros
    img_array,     \* the pixel buffer
    draws,         \* the draw.text calls made so far, in order
    raised,        \* the call that raised, "" when none did
    bg_color,      \* argument of get_contrasting_text_color
    text_color     \* its return value

vars == <<fn, raw, image_width, image_height, block_size, pc, dna_sequence,
          total_chars, width, height, img_shape, img_array, draws, raised,
          bg_color, text_color>>

(* ------------------------------ bounds --------------------------------- *)
MaxLen == 2        \* length of the enumerated input texts of the pipeline
MaxDim == 3        \* largest image_width / image_height argument
MaxBlock == 4      \* largest block_size argument
MaxRawLen == 3     \* length of the input texts of the normalisation runs
MaxTotal == 12     \* longest sequence of the dimension runs
MaxSide == 5       \* largest width / height argument of the dimension runs

(* ------------------------------ colours -------------------------------- *)
Black == <<0, 0, 0>>
White == <<255, 255, 255>>

\* the colours of T and C exchanged
color_map_Swapped ==
    ("A" :> <<255, 0, 0>>) @@ ("T" :> <<0, 0, 255>>) @@
    ("C" :> <<0, 255, 0>>) @@ ("G" :> <<255, 255, 0>>)

color_map ==
    ("A" :> <<255, 0, 0>>) @@ ("T" :> <<0, 255, 0>>) @@
    ("C" :> <<0, 0, 255>>) @@ ("G" :> <<255, 255, 0>>)

color_map_with_text ==
    ("A" :> <<255, 0, 0>>) @@ ("T" :> <<0, 255, 0>>) @@
    ("C" :> <<0, 0, 255>>) @@ ("G" :> <<255, 255, 0>>)

\* dict.get(key, default)
Get(map, key, default) == IF key \in DOMAIN map THEN map[key] ELSE default

(* --------------------------- text operations --------------------------- *)
IsSpace(c) == c \in {" ", "\n", "\t"}

RECURSIVE LStrip(_)
LStrip(s) == IF s # <<>> /\ IsSpace(Head(s)) THEN LStrip(Tail(s)) ELSE s

RECURSIVE RStrip(_)
RStrip(s) ==
    IF s # <<>> /\ IsSpace(s[Len(s)]) THEN RStrip(SubSeq(s, 1, Len(s) - 1)) ELSE s

\* str.strip()
Strip(s) == RStrip(LStrip(s))

\* the text left in the case it was read in
UpperChar_Identity(c) == <<c>>

\* str.upper() of one character: a sequence, since the full case mapping of
\* some characters is longer than one character
UpperChar(c) ==
    CASE c = "a" -> <<"A">>
      [] c = "c" -> <<"C">>
      [] c = "g" -> <<"G">>
      [] c = "t" -> <<"T">>
      [] c = "x" -> <<"X">>
      [] c = "fst" -> <<"S", "T">>
      [] OTHER -> <<c>>

RECURSIVE Upper(_)
Upper(s) == IF s = <<>> THEN <<>> ELSE UpperChar(Head(s)) \o Upper(Tail(s))

\* ''.join(filter(lambda x: x in color_map, s))
FilterIn(map, s) == SelectSeq(s, LAMBDA x : x \in DOMAIN map)

\* file.read().strip().upper(), then the filter
ReadSequence(map, text) == FilterIn(map, Upper(Strip(text)))


(* ----------------------------- arithmetic ------------------------------ *)
\* a // b in place of math.ceil(a / b)
CeilDiv_Floor(a, b) == a \div b

\* math.ceil(a / b) for a >= 0, b > 0
CeilDiv(a, b) == IF a % b = 0 THEN a \div b ELSE (a \div b) + 1

\* the integer part of math.sqrt(n)
FloorSqrt(n) == CHOOSE r \in 0..n : r * r <= n /\ n < (r + 1) * (r + 1)

\* int(math.sqrt(n)) in place of math.ceil(math.sqrt(n))
CeilSqrt_Truncated(n) == FloorSqrt(n)

\* math.ceil(math.sqrt(n))
CeilSqrt(n) == IF FloorSqrt(n) * FloorSqrt(n) = n THEN FloorSqrt(n) ELSE FloorSqrt(n) + 1

\* "Determine image dimensions" of dna_to_image: <<width, height>>
Dimensions(total, w, h) ==
    IF w # 0 /\ h # 0 THEN <<w, h>>
    ELSE IF w # 0 THEN <<w, CeilDiv(total, w)>>
    ELSE IF h # 0 THEN <<CeilDiv(total, h), h>>
    ELSE <<CeilSqrt(total), CeilSqrt(total)>>

\* "Determine image dimensions in blocks" of dna_to_image_with_text:
\* <<width_blocks, height_blocks>>
DimensionsBlocks(total, w, h) ==
    IF w # 0 /\ h # 0 THEN <<w, h>>
    ELSE IF w # 0 THEN <<w, CeilDiv(total, w)>>
    ELSE IF h # 0 THEN <<CeilDiv(total, h), h>>
    ELSE <<CeilSqrt(total), CeilSqrt(total)>>

(* ---------------------------- pixel buffers ---------------------------- *)
\* np.zeros((rows, cols, 3), dtype=np.uint8), for rows, cols >= 0
Zeros(rows, cols) == [p \in (0..(rows - 1)) \X (0..(cols - 1)) |-> Black]

\* img_array[col, row] = colour
SetCell_Transposed(img, row, col, colour) ==
    IF <<col, row>> \in DOMAIN img THEN [img EXCEPT ![<<col, row>>] = colour] ELSE img

\* img_array[row, col] = colour
SetCell(img, row, col, colour) == [img EXCEPT ![<<row, col>>] = colour]

\* img_array[start_y:end_y - 1, start_x:end_x - 1] = colour
SetBlock_ShortByOne(img, start_y, end_y, start_x, end_x, colour) ==
    [p \in DOMAIN img |->
        IF start_y <= p[1] /\ p[1] < end_y - 1 /\ start_x <= p[2] /\ p[2] < end_x - 1
        THEN colour ELSE img[p]]

\* img_array[start_y:end_y, start_x:end_x] = colour (bounds >= 0: the slice
\* is clipped to the buffer)
SetBlock(img, start_y, end_y, start_x, end_x, colour) ==
    [p \in DOMAIN img |->
        IF start_y <= p[1] /\ p[1] < end_y /\ start_x <= p[2] /\ p[2] < end_x
        THEN colour ELSE img[p]]

\* the loop "Map each nucleotide to its color" of dna_to_image, from index idx
RECURSIVE PaintFrom(_, _, _, _, _)
PaintFrom(img, seq, idx, w, h) ==
    IF idx >= Len(seq) THEN img
    ELSE LET row == idx \div w
             col == idx % w
         IN  IF row >= h THEN img
             ELSE PaintFrom(SetCell(img, row, col, Get(color_map, seq[idx + 1], Black)),
                            seq, idx + 1, w, h)

\* the same loop of dna_to_image_with_text
RECURSIVE PaintBlocksFrom(_, _, _, _, _, _)
PaintBlocksFrom(img, seq, idx, w, h, bs) ==
    IF idx >= Len(seq) THEN img
    ELSE LET row_block == idx \div w
             col_block == idx % w
             start_y == row_block * bs
             end_y == start_y + bs
             start_x == col_block * bs
             end_x == start_x + bs
         IN  IF row_block >= h THEN img
             ELSE PaintBlocksFrom(
                      SetBlock(img, start_y, end_y, start_x, end_x,
                               Get(color_map_with_text, seq[idx + 1], Black)),
                      seq, idx + 1, w, h, bs)

(* ----------------------------- text overlay ---------------------------- *)
\* `luminance >= 128` in place of `luminance > 128`
get_contrasting_text_color_AtLeast(bg) ==
    LET luminance == 299 * bg[1] + 587 * bg[2] + 114 * bg[3]
    IN  IF luminance >= 128 * 1000 THEN Black ELSE White

\* The luminance 0.299*R + 0.587*G + 0.114*B in thousandths.  In IEEE double
\* arithmetic the comparison `luminance > 128` gives, for every R, G, B in
\* 0..255, the result of the exact comparison made below.
get_contrasting_text_color(bg) ==
    LET luminance == 299 * bg[1] + 587 * bg[2] + 114 * bg[3]
    IN  IF luminance > 128 * 1000 THEN Black ELSE White

\* the glyph loop without its `if row_block >= height_blocks: break`
RECURSIVE DrawFrom_NoBreak(_, _, _, _, _, _)
DrawFrom_NoBreak(done, seq, idx, w, h, bs) ==
    IF idx >= Len(seq) THEN done
    ELSE LET text == seq[idx + 1]
             col == get_contrasting_text_color(Get(color_map_with_text, text, Black))
             text_position == <<(idx % w) * bs + (bs \div 4), (idx \div w) * bs + (bs \div 4)>>
         IN  DrawFrom_NoBreak(Append(done, [position |-> text_position, text |-> text,
                                            fill |-> col]),
                              seq, idx + 1, w, h, bs)

\* the loop "Draw nucleotide characters on each block", from index idx
RECURSIVE DrawFrom(_, _, _, _, _, _)
DrawFrom(done, seq, idx, w, h, bs) ==
    IF idx >= Len(seq) THEN done
    ELSE LET row_block == idx \div w
             col_block == idx % w
             start_y == row_block * bs
             start_x == col_block * bs
             text == seq[idx + 1]
             col == get_contrasting_text_color(Get(color_map_with_text, text, Black))
             text_position == <<start_x + (bs \div 4), start_y + (bs \div 4)>>
         IN  IF row_block >= h THEN done
             ELSE DrawFrom(Append(done, [position |-> text_position, text |-> text,
                                         fill |-> col]),
                           seq, idx + 1, w, h, bs)

(* ------------------------------- inputs -------------------------------- *)
Fns == {"dna_to_image", "dna_to_image_with_text"}

\* the texts of length at most n over the characters cs
Texts(cs, n) == UNION {[1..k -> cs] : k \in 0..n}

ScenarioText == <<"a", "c", "g", "t", "X", "X", "\n", "A", "C", "G", "T">>
TenSymbols == <<"A", "C", "G", "T", "A", "C", "G", "T", "A", "C">>

PipelineTexts == Texts({"a", "T", "c", "G", "X"}, MaxLen) \cup {ScenarioText, TenSymbols}

NormalizeTexts ==
    Texts({"a", "c", "g", "t", "A", "T", "C", "G", "x", "N", " ", "\n", "fst"}, MaxRawLen)

BlockSizes == {-1} \cup (0..MaxBlock)

Levels == {0, 1, 127, 128, 129, 147, 189, 255}

\* the state at the call, before the body runs
AtCall ==
    /\ pc = "start"
    /\ dna_sequence = <<>>
    /\ total_chars = 0
    /\ width = 0
    /\ height = 0
    /\ img_shape = <<>>
    /\ img_array = <<>>
    /\ draws = <<>>
    /\ raised = ""
    /\ bg_color = Black
    /\ text_color = <<>>

Init ==
    /\ fn \in Fns
    /\ raw \in PipelineTexts
    /\ image_width \in 0..MaxDim
    /\ image_height \in 0..MaxDim
    /\ block_size \in IF fn = "dna_to_image" THEN {1} ELSE BlockSizes
    /\ AtCall

InitNormalize ==
    /\ fn \in Fns
    /\ raw \in NormalizeTexts
    /\ image_width = 0
    /\ image_height = 0
    /\ block_size = 1
    /\ AtCall

InitDimensions ==
    /\ fn \in Fns
    /\ raw \in {[i \in 1..n |-> "A"] : n \in 0..MaxTotal}
    /\ image_width \in 0..MaxSide
    /\ image_height \in 0..MaxSide
    /\ block_size = 1
    /\ AtCall

InitContrast ==
    /\ fn = "dna_to_image_with_text"
    /\ raw = <<>>
    /\ image_width = 0
    /\ image_height = 0
    /\ block_size = 1
    /\ pc = "contrast"
    /\ dna_sequence = <<>>
    /\ total_chars = 0
    /\ width = 0
    /\ height = 0
    /\ img_shape = <<>>
    /\ img_array = <<>>
    /\ draws = <<>>
    /\ raised = ""
    /\ bg_color \in Levels \X Levels \X Levels
    /\ text_color = <<>>

(* ------------------------------- actions ------------------------------- *)
Area == img_shape[1] * img_shape[2]

\* dna_to_image: read, upper-case and filter the sequence
Read ==
    /\ pc = "start"
    /\ fn = "dna_to_image"
    /\ dna_sequence' = ReadSequence(color_map, raw)
    /\ total_chars' = Len(dna_sequence')
    /\ pc' = "resolve"
    /\ UNCHANGED <<fn, raw, image_width, image_height, block_size, width, height,
                   img_shape, img_array, draws, raised, bg_color, text_color>>

\* dna_to_image_with_text: the same, and the early return on an empty sequence
ReadWithText ==
    /\ pc = "start"
    /\ fn = "dna_to_image_with_text"
    /\ dna_sequence' = ReadSequence(color_map_with_text, raw)
    /\ total_chars' = Len(dna_sequence')
    /\ pc' = IF total_chars' = 0 THEN "returned" ELSE "resolve"
    /\ UNCHANGED <<fn, raw, image_width, image_height, block_size, width, height,
                   img_shape, img_array, draws, raised, bg_color, text_color>>

DetermineDimensions ==
    /\ pc = "resolve"
    /\ fn = "dna_to_image"
    /\ width' = Dimensions(total_chars, image_width, image_height)[1]
    /\ height' = Dimensions(total_chars, image_width, image_height)[2]
    /\ pc' = "alloc"
    /\ UNCHANGED <<fn, raw, image_width, image_height, block_size, dna_sequence,
                   total_chars, img_shape, img_array, draws, raised, bg_color,
                   text_color>>

DetermineDimensionsBlocks ==
    /\ pc = "resolve"
    /\ fn = "dna_to_image_with_text"
    /\ width' = DimensionsBlocks(total_chars, image_width, image_height)[1]
    /\ height' = DimensionsBlocks(total_chars, image_width, image_height)[2]
    /\ pc' = "alloc"
    /\ UNCHANGED <<fn, raw, image_width, image_height, block_size, dna_sequence,
                   total_chars, img_shape, img_array, draws, raised, bg_color,
                   text_color>>

\* np.zeros raises ValueError on a negative dimension
Allocate(rows, cols) ==
    /\ IF rows < 0 \/ cols < 0
       THEN /\ raised' = "np.zeros"
            /\ pc' = "raised"
            /\ UNCHANGED <<img_shape, img_array>>
       ELSE /\ img_shape' = <<rows, cols>>
            /\ img_array' = Zeros(rows, cols)
            /\ pc' = "paint"
            /\ UNCHANGED raised
    /\ UNCHANGED <<fn, raw, image_width, image_height, block_size, dna_sequence,
                   total_chars, width, height, draws, bg_color, text_color>>

Alloc ==
    /\ pc = "alloc"
    /\ fn = "dna_to_image"
    /\ Allocate(height, width)

AllocBlocks ==
    /\ pc = "alloc"
    /\ fn = "dna_to_image_with_text"
    /\ Allocate(height * block_size, width * block_size)

Paint ==
    /\ pc = "paint"
    /\ fn = "dna_to_image"
    /\ img_array' = PaintFrom(img_array, dna_sequence, 0, width, height)
    /\ pc' = "encode"
    /\ UNCHANGED <<fn, raw, image_width, image_height, block_size, dna_sequence,
                   total_chars, width, height, img_shape, draws, raised, bg_color,
                   text_color>>

PaintBlocks ==
    /\ pc = "paint"
    /\ fn = "dna_to_image_with_text"
    /\ img_array' = PaintBlocksFrom(img_array, dna_sequence, 0, width, height, block_size)
    /\ pc' = "encode"
    /\ UNCHANGED <<fn, raw, image_width, image_height, block_size, dna_sequence,
                   total_chars, width, height, img_shape, draws, raised, bg_color,
                   text_color>>

\* Image.fromarray(img_array, 'RGB'): the imaging library, which depending on
\* its version accepts or rejects a buffer of zero area
Encode ==
    /\ pc = "encode"
    /\ \E accepts_empty \in BOOLEAN :
          IF Area = 0 /\ ~accepts_empty
          THEN raised' = "Image.fromarray" /\ pc' = "raised"
          ELSE /\ pc' = IF fn = "dna_to_image" THEN "save" ELSE "font"
               /\ UNCHANGED raised
    /\ UNCHANGED <<fn, raw, image_width, image_height, block_size, dna_sequence,
                   total_chars, width, height, img_shape, img_array, draws,
                   bg_color, text_color>>

\* "Load a font": with a font file, every exception falls back to the default
\* font; without one only IOError does, and the library, depending on its
\* version, raises ValueError for a size <= 0
LoadFont ==
    /\ pc = "font"
    /\ \E font_path_isfile \in BOOLEAN, font_size \in {0, 8}, rejects_size \in BOOLEAN :
          LET size == IF font_size # 0 THEN font_size ELSE block_size - 2
          IN  IF ~font_path_isfile /\ size <= 0 /\ rejects_size
              THEN raised' = "ImageFont.truetype" /\ pc' = "raised"
              ELSE pc' = "draw" /\ UNCHANGED raised
    /\ UNCHANGED <<fn, raw, image_width, image_height, block_size, dna_sequence,
                   total_chars, width, height, img_shape, img_array, draws,
                   bg_color, text_color>>

Draw ==
    /\ pc = "draw"
    /\ draws' = DrawFrom(<<>>, dna_sequence, 0, width, height, block_size)
    /\ pc' = "save"
    /\ UNCHANGED <<fn, raw, image_width, image_height, block_size, dna_sequence,
                   total_chars, width, height, img_shape, img_array, raised,
                   bg_color, text_color>>

\* img.save(output_file, format='TIFF'): the imaging library again
Save ==
    /\ pc = "save"
    /\ \E accepts_empty \in BOOLEAN :
          IF Area = 0 /\ ~accepts_empty
          THEN raised' = "img.save" /\ pc' = "raised"
          ELSE pc' = "done" /\ UNCHANGED raised
    /\ UNCHANGED <<fn, raw, image_width, image_height, block_size, dna_sequence,
                   total_chars, width, height, img_shape, img_array, draws,
                   bg_color, text_color>>

\* a call of get_contrasting_text_color
Contrast ==
    /\ pc = "contrast"
    /\ text_color' = get_contrasting_text_color(bg_color)
    /\ pc' = "contrasted"
    /\ UNCHANGED <<fn, raw, image_width, image_height, block_size, dna_sequence,
                   total_chars, width, height, img_shape, img_array, draws, raised,
                   bg_color>>

Next ==
    \/ Read
    \/ ReadWithText
    \/ DetermineDimensions
    \/ DetermineDimensionsBlocks
    \/ Alloc
    \/ AllocBlocks
    \/ Paint
    \/ PaintBlocks
    \/ Encode
    \/ LoadFont
    \/ Draw
    \/ Save

Spec == Init /\ [][Next]_vars

NextNormalize == Read \/ ReadWithText

SpecNormalize == InitNormalize /\ [][NextNormalize]_vars

NextDimensions == Read \/ ReadWithText \/ DetermineDimensions \/ DetermineDimensionsBlocks

SpecDimensions == InitDimensions /\ [][NextDimensions]_vars

NextContrast == Contrast

SpecContrast == InitContrast /\ [][NextContrast]_vars

(* ======================= properties of the program ===================== *)
Alphabet == {"A", "T", "C", "G"}

Min(a, b) == IF a <= b THEN a ELSE b

\* the colour table of the specification
SymbolColour(c) ==
    CASE c = "A" -> <<255, 0, 0>>
      [] c = "T" -> <<0, 255, 0>>
      [] c = "C" -> <<0, 0, 255>>
      [] c = "G" -> <<255, 255, 0>>

Red == <<255, 0, 0>>
Green == <<0, 255, 0>>
Blue == <<0, 0, 255>>
Yellow == <<255, 255, 0>>

\* what one character of the input contributes to the normalized sequence
KeptOf(c) ==
    CASE c \in {"a", "A"} -> <<"A">>
      [] c \in {"t", "T"} -> <<"T">>
      [] c \in {"c", "C"} -> <<"C">>
      [] c \in {"g", "G"} -> <<"G">>
      [] c = "fst" -> <<"T">>
      [] OTHER -> <<>>

RECURSIVE KeptSymbols(_)
KeptSymbols(text) ==
    IF text = <<>> THEN <<>> ELSE KeptOf(Head(text)) \o KeptSymbols(Tail(text))

\* the sequence has been painted into the buffer
SimplePainted == fn = "dna_to_image" /\ pc \in {"encode", "save", "done", "raised"}

BlockPainted ==
    /\ fn = "dna_to_image_with_text"
    /\ pc \in {"encode", "font", "draw", "save", "done", "raised"}
    /\ img_shape # <<>>

\* the glyph loop has run
Drawn ==
    /\ fn = "dna_to_image_with_text"
    /\ pc \in {"save", "done"} \/ (pc = "raised" /\ raised = "img.save")

NoneGiven == image_width = 0 /\ image_height = 0

\* q = ceil(t / d)
IsCeilQuotient(q, t, d) == (q - 1) * d < t /\ t <= q * d

\* C1: in both functions the normalized sequence is the subsequence of the
\* upper-cased input made of A, T, C and G: only those four characters occur,
\* a, t, c and g are kept as A, T, C and G, everything else is dropped, the
\* order is kept, and nothing is raised.
C1_Normalized ==
    pc # "start" =>
        /\ raised = ""
        /\ \A i \in 1..Len(dna_sequence) : dna_sequence[i] \in Alphabet
        /\ dna_sequence = KeptSymbols(raw)
        /\ total_chars = Len(dna_sequence)

C1_Witness ==
    /\ pc = "resolve"
    /\ raw = <<"g", "N", "a">>
    /\ dna_sequence = <<"G", "A">>

\* C2: the resolved dimensions are the given pair when both are given,
\* (width, ceil(total/width)) for a width alone, (ceil(total/height), height)
\* for a height alone, and otherwise the smallest s with s*s >= total, twice;
\* resolve(0) = (0,0), resolve(10, width=5) = (5,2), resolve(10) = (4,4),
\* resolve(9) = (3,3).
C2_Resolved ==
    pc = "alloc" =>
        /\ (image_width # 0 /\ image_height # 0) =>
               width = image_width /\ height = image_height
        /\ (image_width # 0 /\ image_height = 0) =>
               width = image_width /\ IsCeilQuotient(height, total_chars, width)
        /\ (image_width = 0 /\ image_height # 0) =>
               height = image_height /\ IsCeilQuotient(width, total_chars, height)
        /\ NoneGiven =>
               /\ width = height
               /\ width >= 0
               /\ width * width >= total_chars
               /\ \A s \in 0..(width - 1) : s * s < total_chars
        /\ (NoneGiven /\ total_chars = 0) => <<width, height>> = <<0, 0>>
        /\ (image_width = 5 /\ image_height = 0 /\ total_chars = 10) =>
               <<width, height>> = <<5, 2>>
        /\ (NoneGiven /\ total_chars = 10) => <<width, height>> = <<4, 4>>
        /\ (NoneGiven /\ total_chars = 9) => <<width, height>> = <<3, 3>>

C2_Witness ==
    /\ pc = "alloc"
    /\ NoneGiven
    /\ total_chars = 10
    /\ <<width, height>> = <<4, 4>>

\* C3: after dna_to_image has painted, the buffer has shape (height, width)
\* and, with n = min(len(sequence), width*height), cell (i div width,
\* i mod width) holds the colour of symbol i for every i < n and every other
\* cell is black; symbols from index width*height on are dropped and nothing
\* is raised for them (ten symbols in a 3 x 2 grid paint exactly 6 cells).
C3_SimplePaint ==
    SimplePainted =>
        LET n == Min(Len(dna_sequence), width * height)
        IN  /\ img_shape = <<height, width>>
            /\ DOMAIN img_array = (0..(height - 1)) \X (0..(width - 1))
            /\ \A i \in 0..(n - 1) :
                   /\ <<i \div width, i % width>> \in DOMAIN img_array
                   /\ img_array[<<i \div width, i % width>>] =
                          SymbolColour(dna_sequence[i + 1])
            /\ \A p \in DOMAIN img_array :
                   p[1] * width + p[2] >= n => img_array[p] = Black
            /\ Len(dna_sequence) > width * height => raised = ""
            /\ (Len(dna_sequence) = 10 /\ width = 3 /\ height = 2) =>
                   {p \in DOMAIN img_array : img_array[p] # Black} =
                       (0..1) \X (0..2)

C3_Witness ==
    /\ SimplePainted
    /\ raw = TenSymbols
    /\ <<width, height>> = <<3, 2>>
    /\ Cardinality({p \in DOMAIN img_array : img_array[p] # Black}) = 6
    /\ raised = ""

\* C4 as stated: the text "acgtXX\nACGT" with no width or height gives
\* "ACGTACGT", the grid (3,3), and the cells (0,0) red, (0,1) green, (0,2) blue,
\* (1,0) yellow, (1,1) red, (1,2) green, (2,0) blue, (2,1) yellow, (2,2) black.
C4_AsStated ==
    (SimplePainted /\ raw = ScenarioText /\ NoneGiven) =>
        /\ dna_sequence = <<"A", "C", "G", "T", "A", "C", "G", "T">>
        /\ <<width, height>> = <<3, 3>>
        /\ img_array[<<0, 0>>] = Red
        /\ img_array[<<0, 1>>] = Green
        /\ img_array[<<0, 2>>] = Blue
        /\ img_array[<<1, 0>>] = Yellow
        /\ img_array[<<1, 1>>] = Red
        /\ img_array[<<1, 2>>] = Green
        /\ img_array[<<2, 0>>] = Blue
        /\ img_array[<<2, 1>>] = Yellow
        /\ img_array[<<2, 2>>] = Black

\* C4 amended: the same text gives "ACGTACGT", the grid (3,3), and the cells
\* in the order of the sequence A, C, G, T, A, C, G, T: (0,0) red, (0,1) blue,
\* (0,2) yellow, (1,0) green, (1,1) red, (1,2) blue, (2,0) yellow, (2,1) green,
\* and (2,2) black.
C4_Scenario ==
    (SimplePainted /\ raw = ScenarioText /\ NoneGiven) =>
        /\ dna_sequence = <<"A", "C", "G", "T", "A", "C", "G", "T">>
        /\ total_chars = 8
        /\ <<width, height>> = <<3, 3>>
        /\ img_array[<<0, 0>>] = Red
        /\ img_array[<<0, 1>>] = Blue
        /\ img_array[<<0, 2>>] = Yellow
        /\ img_array[<<1, 0>>] = Green
        /\ img_array[<<1, 1>>] = Red
        /\ img_array[<<1, 2>>] = Blue
        /\ img_array[<<2, 0>>] = Yellow
        /\ img_array[<<2, 1>>] = Green
        /\ img_array[<<2, 2>>] = Black

C4_Witness ==
    /\ SimplePainted
    /\ raw = ScenarioText
    /\ NoneGiven
    /\ pc = "done"

\* C5: in both functions an empty normalized sequence short-circuits: nothing
\* is raised, no pixel buffer is allocated and nothing is handed to the encoder.
C5_EmptyShortCircuits ==
    (pc # "start" /\ total_chars = 0) =>
        /\ raised = ""
        /\ img_shape = <<>>
        /\ pc \notin {"paint", "encode", "save", "done"}

\* C6: in dna_to_image_with_text, a non-empty sequence with block_size <= 0
\* is rejected before a pixel buffer is allocated or painted, and the call
\* never completes normally.
C6_InvalidBlockSizeFailsFast ==
    (fn = "dna_to_image_with_text" /\ total_chars > 0 /\ block_size <= 0) =>
        /\ img_shape = <<>>
        /\ pc \notin {"paint", "encode", "font", "draw", "save", "done"}

\* C7: with block_size > 0 the block buffer has shape (height*block_size,
\* width*block_size) and pixel (y, x) holds what dna_to_image puts in cell
\* (y div block_size, x div block_size) for the same sequence and grid; each
\* symbol i below min(len, width*height) fills its whole square.
C7_BlocksRefineCells ==
    (BlockPainted /\ block_size > 0) =>
        LET n == Min(Len(dna_sequence), width * height)
            cells == PaintFrom(Zeros(height, width), dna_sequence, 0, width, height)
        IN  /\ img_shape = <<height * block_size, width * block_size>>
            /\ DOMAIN img_array =
                   (0..(height * block_size - 1)) \X (0..(width * block_size - 1))
            /\ \A p \in DOMAIN img_array :
                   img_array[p] = cells[<<p[1] \div block_size, p[2] \div block_size>>]
            /\ \A i \in 0..(n - 1) :
                   \A dy \in 0..(block_size - 1), dx \in 0..(block_size - 1) :
                       img_array[<<(i \div width) * block_size + dy,
                                   (i % width) * block_size + dx>>] =
                           SymbolColour(dna_sequence[i + 1])

C7_Witness ==
    /\ BlockPainted
    /\ block_size = 2
    /\ raw = TenSymbols
    /\ <<width, height>> = <<3, 2>>
    /\ img_array[<<3, 5>>] = Blue

\* the contrasting colour of the specification
LegibleOn(bg) ==
    IF 299 * bg[1] + 587 * bg[2] + 114 * bg[3] > 128000 THEN <<0, 0, 0>>
    ELSE <<255, 255, 255>>

\* C8: the glyphs drawn are one per symbol below n = min(len, width*height),
\* in index order, at (col*block_size + block_size div 4, row*block_size +
\* block_size div 4), with the symbol as text and the contrasting colour of
\* its block; no glyph is drawn for a dropped symbol, so the glyphs and the
\* painted blocks are of the same symbols.
C8_Glyphs ==
    Drawn =>
        LET n == Min(Len(dna_sequence), width * height)
            quarter == block_size \div 4
            corner(i) == <<(i \div width) * block_size, (i % width) * block_size>>
        IN  /\ Len(draws) = n
            /\ \A i \in 0..(n - 1) :
                   draws[i + 1] =
                       [position |-> <<(i % width) * block_size + quarter,
                                       (i \div width) * block_size + quarter>>,
                        text |-> dna_sequence[i + 1],
                        fill |-> LegibleOn(SymbolColour(dna_sequence[i + 1]))]
            /\ block_size > 0 =>
                   {i \in 0..(Len(dna_sequence) - 1) :
                        corner(i) \in DOMAIN img_array /\ img_array[corner(i)] # Black} =
                       0..(Len(draws) - 1)

C8_Witness ==
    /\ Drawn
    /\ block_size = 4
    /\ raw = TenSymbols
    /\ <<width, height>> = <<3, 2>>
    /\ Len(draws) = 6
    /\ draws[6] = [position |-> <<9, 5>>, text |-> "C", fill |-> White]

\* C9: get_contrasting_text_color returns black when 299*R + 587*G + 114*B >
\* 128000 and white otherwise, never another colour; yellow gives black and
\* blue gives white.
C9_Contrast ==
    pc = "contrasted" =>
        /\ text_color \in {<<0, 0, 0>>, <<255, 255, 255>>}
        /\ text_color = <<0, 0, 0>> <=>
               299 * bg_color[1] + 587 * bg_color[2] + 114 * bg_color[3] > 128000
        /\ bg_color = Yellow => text_color = <<0, 0, 0>>
        /\ bg_color = Blue => text_color = <<255, 255, 255>>

C9_Witness ==
    /\ pc = "contrasted"
    /\ bg_color = <<128, 128, 128>>
    /\ text_color = White

\* C10: for a non-empty sequence and at most one of width and height given,
\* width >= 1, height >= 1 and width*height >= total, so no symbol is
\* dropped: every symbol is painted (and, in block mode, gets its glyph); a
\* grid with width*height < total occurs only when both were given.
C10_GridHoldsSequence ==
    pc \in {"alloc", "paint", "encode", "font", "draw", "save", "done", "raised"} =>
        /\ (total_chars > 0 /\ ~(image_width # 0 /\ image_height # 0)) =>
               /\ width >= 1
               /\ height >= 1
               /\ width * height >= total_chars
               /\ SimplePainted =>
                      \A i \in 0..(total_chars - 1) :
                          img_array[<<i \div width, i % width>>] =
                              SymbolColour(dna_sequence[i + 1])
               /\ (BlockPainted /\ block_size > 0) =>
                      \A i \in 0..(total_chars - 1) :
                          img_array[<<(i \div width) * block_size,
                                      (i % width) * block_size>>] =
                              SymbolColour(dna_sequence[i + 1])
               /\ Drawn => Len(draws) = total_chars
        /\ width * height < total_chars => (image_width # 0 /\ image_height # 0)

C10_Witness ==
    /\ SimplePainted
    /\ raw = TenSymbols
    /\ image_width = 3
    /\ image_height = 0
    /\ <<width, height>> = <<3, 4>>
    /\ img_array[<<3, 0>>] = Blue

====
